---- MODULE Spec2Model ----
(***************************************************************************)
(* Model of copy_footage_script_threading.py: the main thread submits one  *)
(* worker call (worker_alert / worker_manual) per task to a               *)
(* ThreadPoolExecutor(max_workers=4); each worker drives execute_video,    *)
(* then (with a companion audio gateway) execute_audio and the ffmpeg mux. *)
(* Every remote call is one step of the worker that issues it; its         *)
(* response is an input drawn from the outcomes the remote side can give.  *)
(* Before the pool, main fetches the policy alerts and derives the         *)
(* download tasks (alert mode) and resolves the camera-to-gateway map.     *)
(***************************************************************************)
EXTENDS Integers, Sequences, FiniteSets, TLC

\* ------------------------------------------------------------------ bounds
MaxPoolTasks == 5      \* tasks of one run under SpecPool
MaxDuration == 4       \* largest clip duration (seconds) drawn
MaxFaults == 1         \* remote faults injected in one run under Spec
MaxBuffer == 2         \* largest --alert_buffer (seconds) drawn

\* ------------------------------------------------------- program constants
max_workers == 4
URI_FILE_ENDINGS == <<"clip.mpd", "file.mpd">>
None == "None"

VARIABLES
    mode,            \* "alert" | "manual"   (args_main.alerts)
    args_main,       \* the base run configuration: [start_time, duration,
                     \* usewan]
    tasks,           \* the work items handed to executor.submit, in order
    mpd_start_index, \* the start index the devices' manifests carry
    faultBudget,     \* how many remote faults the run may still see
    mainPc,          \* main thread: "fetch_alerts" | "derive" |
                     \* "resolve_cam" | "resolve_aud" | "map" | "submit" |
                     \* "report" | "exit" (sys.exit(0)) | "raised"
    submitted,       \* number of executor.submit calls made so far
    pc,              \* pc[t]: where the worker call of task t stands
    stream,          \* stream[t]: the stream that call is in (video | audio)
    loc,             \* loc[t]: locals of the running execute_video/_audio
    files,           \* the output directory: path -> [exists, data]
    reqs,            \* history: the remote requests task t has issued
    result,          \* history: how each stream of task t ended
    mux,             \* history: outcome of task t's ffmpeg run
    opts,            \* args_main: alert_buffer, location_uuid, camera_uuid
    remote,          \* what the remote API answers to main's three calls
    alerts,          \* the list get_policy_alerts returned
    alert_i,         \* process_alerts_for_download: index of the next alert
    download_tasks,  \* process_alerts_for_download: the tasks so far
    camResDict,      \* get_camera_to_gateway_map: decoded camera directory
    audResDict,      \* get_camera_to_gateway_map: decoded gateway directory
    cam_i,           \* get_camera_to_gateway_map: index of the next camera
    camUuidDict,     \* the camera mapping, in insertion order
    origin,          \* history: the alert index each task came from
    mainLog          \* history: the remote calls main has issued

\* What main computes before it reaches the pool.
prepVars == <<opts, remote, alerts, alert_i, download_tasks, camResDict,
              audResDict, cam_i, camUuidDict, origin, mainLog>>

vars == <<mode, args_main, tasks, mpd_start_index, faultBudget, mainPc,
          submitted, pc, stream, loc, files, reqs, result, mux, prepVars>>

Tasks == 1..Len(tasks)
Streams == {"video", "audio"}
Terminal == {"done", "failed"}

\* --------------------------------------------------------- pure functions

\* Seeded fault: the segment count rounded up instead of truncated.
IntHalf_RoundsUp(duration) == (duration + 1) \div 2

\* int(self.duration / 2): true division, then truncation toward zero.
IntHalf(duration) ==
    IF duration >= 0 THEN duration \div 2 ELSE -((-duration) \div 2)

\* range(int(self.duration / 2)): the indices the segment loop visits.
SegmentRange(duration) == 0..(IntHalf(duration) - 1)

\* mpd_uri_template.replace(...): the template's file name is kept.
\* A uri is [file |-> its trailing file name]; None when there is none.
get_segment_uri(mpd_uri, segment_name) ==
    IF \E k \in 1..Len(URI_FILE_ENDINGS) : URI_FILE_ENDINGS[k] = mpd_uri.file
    THEN [file |-> segment_name]
    ELSE [file |-> None]

\* segment_pattern.replace("$Number$", str(index + start_index))
get_segment_uri_index(rhombus_mpd_info, mpd_uri, index) ==
    get_segment_uri(mpd_uri, <<"seg", index + rhombus_mpd_info.start_index>>)

\* Seeded fault: an AlertArgs that copies nothing of the base configuration.
EngineArgs_Defaults(base_args, task, m) ==
    IF m = "alert"
    THEN [start_time |-> task.start_time, duration |-> task.duration,
          usewan |-> FALSE]
    ELSE base_args

\* The per-task arguments the engine is built from: AlertArgs copies the
\* base configuration and overrides start_time and duration (alert mode);
\* worker_manual passes args_main itself.
EngineArgs(base_args, task, m) ==
    IF m = "alert"
    THEN [base_args EXCEPT !.start_time = task.start_time,
                           !.duration = task.duration]
    ELSE base_args

\* "".join(x for x in text if x.isalnum()): the characters that are
\* neither letters nor digits are dropped. Of the identifiers drawn only
\* "a-1" has one.
Alnum(text) == IF text = "a-1" THEN "a1" ELSE text

\* The part of the file names that identifies the task: uuid, start time
\* and (alert mode) the sanitised alert type and alert id.
FileStem(base_args, task, m) ==
    IF m = "alert"
    THEN <<task.device_uuid, task.start_time,
           <<Alnum(task.alert_type), Alnum(task.alert_id)>>>>
    ELSE <<task.device_uuid, base_args.start_time, 0>>

VideoFile(t) == <<FileStem(args_main, tasks[t], mode), "video">>
AudioFile(t) == <<FileStem(args_main, tasks[t], mode), "audio">>
OutputFile(t) == <<FileStem(args_main, tasks[t], mode), "combined">>
StreamFile(t, s) == IF s = "video" THEN VideoFile(t) ELSE AudioFile(t)

Paths == {<<FileStem(args_main, tasks[t], mode), k>> :
            t \in Tasks, k \in {"video", "audio", "combined"}}

NoFile == [exists |-> FALSE, data |-> <<>>]

\* open(path, "wb"): creates the file, or truncates it.
FileOpenWb(fs, path) == [fs EXCEPT ![path] = [exists |-> TRUE, data |-> <<>>]]

\* Seeded fault: a write that lands at the start of the file.
FileWrite_Prepend(fs, path, chunk) ==
    [fs EXCEPT ![path].data = <<chunk>> \o fs[path].data]

\* output_fp.write(content); output_fp.flush()
FileWrite(fs, path, chunk) ==
    [fs EXCEPT ![path].data = Append(fs[path].data, chunk)]

\* Seeded fault: a removal that leaves the file in place.
FileRemove_Keeps(fs, path) == fs

\* os.remove(path)
FileRemove(fs, path) == [fs EXCEPT ![path] = NoFile]

\* No credential: the value of a Cookie that carries none.
NoToken == <<>>

NoLocals == [session_status |-> 0, federated_session_token |-> NoToken,
             mpd_uri |-> [file |-> None], start_index |-> 0, cur_seg |-> 0]


\* One remote request as the history keeps it: the stream that issued it,
\* its kind, the file asked for, the response status ("ok": success,
\* "bad": a non-success response, "err": a transport error) and whether
\* handling it raised an exception out of the stream.
\* cookie is the session credential the request carries, token the one
\* its response issues (session requests only).
Req(s, kind, file, status, raised) ==
    [stream |-> s, kind |-> kind, file |-> file, status |-> status,
     raised |-> raised, cookie |-> NoToken, token |-> NoToken]

\* session_req_resp.json()["federatedSessionToken"]: the remote side issues
\* a credential of its own to every session request.
FederatedSessionToken(t, s) == <<"RFT", t, s>>

\* Seeded fault: media requests sent without the credential.
media_headers_Empty(federated_session_token) == [Cookie |-> NoToken]

\* media_headers = {"Cookie": "RSESSIONID=RFT:" + token}
media_headers(federated_session_token) ==
    [Cookie |-> federated_session_token]

\* A request of media_sess.get(uri, headers=media_headers).
MediaReq(s, kind, file, status, raised, headers) ==
    [Req(s, kind, file, status, raised) EXCEPT !.cookie = headers.Cookie]

Statuses == {"ok", "bad", "err"}

\* --------------------------------------------------------------- the pool

\* A worker call that has been picked up by a pool thread and not returned.
Running(p, t) == p[t] \notin ({"new", "queued"} \cup Terminal)

\* Seeded fault: a pool that starts a thread for every queued call.
WorkerFree_Unbounded(p) == TRUE

\* ThreadPoolExecutor(max_workers=4): a queued call starts only on one of
\* at most max_workers threads, each running one call at a time.
WorkerFree(p) == Cardinality({t \in DOMAIN p : Running(p, t)}) < max_workers

\* Seeded fault: an exception that takes the whole pool down with it.
WorkerRaises_CancelsPool(p, t) ==
    [u \in DOMAIN p |-> IF u = t \/ p[u] \notin Terminal THEN "failed" ELSE p[u]]

\* An exception that leaves the worker function is stored in the call's
\* future (never read by main); the pool thread goes on to the next call.
WorkerRaises(p, t) == [p EXCEPT ![t] = "failed"]

\* Seeded fault: the mux started as soon as the video stream has returned.
AfterStream_MuxFirst(task, s) ==
    IF task.audioGatewayUuid # None
    THEN [pc |-> "mux", stream |-> s]
    ELSE [pc |-> "done", stream |-> s]

\* Seeded fault: the audio stream run whether or not there is a gateway.
AfterStream_AlwaysAudio(task, s) ==
    IF s = "video"
    THEN [pc |-> "session", stream |-> "audio"]
    ELSE [pc |-> "mux", stream |-> "audio"]

\* worker_manual / worker_alert after a stream has returned normally:
\* video, then audio when the device has a companion gateway, then the mux.
AfterStream(task, s) ==
    IF s = "video"
    THEN IF task.audioGatewayUuid # None
         THEN [pc |-> "session", stream |-> "audio"]
         ELSE [pc |-> "done", stream |-> "video"]
    ELSE [pc |-> "mux", stream |-> "audio"]

\* Seeded fault: an error handler that cleans the intermediate files up.
OnMuxError_Cleanup(fs, t) ==
    [p \in DOMAIN fs |-> IF p[2] \in {"video", "audio"} THEN NoFile ELSE fs[p]]

\* The except clauses around the mux: they log and delete nothing.
OnMuxError(fs, t) == fs

\* executor.submit(worker, ...) for the next task of the loop.
Submit ==
    /\ mainPc = "submit"
    /\ submitted < Len(tasks)
    /\ submitted' = submitted + 1
    /\ pc' = [pc EXCEPT ![submitted + 1] = "queued"]
    /\ UNCHANGED prepVars
    /\ UNCHANGED <<mode, args_main, tasks, mpd_start_index, faultBudget,
                   mainPc, stream, loc, files, reqs, result, mux>>

\* A pool thread takes the oldest queued call and enters the worker:
\* time.sleep(0.1), the file names, the engine; next is execute_video.
StartTask(t) ==
    /\ pc[t] = "queued"
    /\ \A u \in Tasks : u < t => pc[u] # "queued"
    /\ WorkerFree(pc)
    /\ pc' = [pc EXCEPT ![t] = "session"]
    /\ stream' = [stream EXCEPT ![t] = "video"]
    /\ loc' = [loc EXCEPT ![t] = NoLocals]
    /\ UNCHANGED prepVars
    /\ UNCHANGED <<mode, args_main, tasks, mpd_start_index, faultBudget,
                   mainPc, submitted, files, reqs, result, mux>>

\* Seeded fault: a shutdown that does not wait for the calls.
ShutdownReturns_NoWait(p) == TRUE

\* executor.__exit__: shutdown(wait=True) returns once every submitted call
\* has returned or raised.
ShutdownReturns(p) == \A t \in DOMAIN p : p[t] \in Terminal

\* Leaving the with block; main goes on to the elapsed-time report.
PoolExit ==
    /\ mainPc = "submit"
    /\ submitted = Len(tasks)
    /\ ShutdownReturns(pc)
    /\ mainPc' = "report"
    /\ UNCHANGED prepVars
    /\ UNCHANGED <<mode, args_main, tasks, mpd_start_index, faultBudget,
                   submitted, pc, stream, loc, files, reqs, result, mux>>

\* ------------------------------------------------------------ one stream

\* The stream returns to the worker (how: "completed" | "aborted").
StreamReturns(t, how) ==
    LET nx == AfterStream(tasks[t], stream[t]) IN
    /\ pc' = [pc EXCEPT ![t] = nx.pc]
    /\ stream' = [stream EXCEPT ![t] = nx.stream]
    /\ result' = [result EXCEPT ![t][stream[t]] = how]
    /\ loc' = [loc EXCEPT ![t] = NoLocals]

\* An exception leaves the stream; neither worker catches it there.
StreamRaises(t) ==
    /\ pc' = WorkerRaises(pc, t)
    /\ stream' = stream
    /\ result' = [result EXCEPT ![t][stream[t]] = "raised"]
    /\ loc' = [loc EXCEPT ![t] = NoLocals]

\* A fault is drawn only while the run's budget lasts.
Draw(faulty) ==
    /\ faulty => faultBudget > 0
    /\ faultBudget' = IF faulty THEN faultBudget - 1 ELSE faultBudget

Log(t, e) == reqs' = [reqs EXCEPT ![t] = Append(reqs[t], e)]

\* The status code of a response: 200, or some other code.
StatusCode(status) == IF status = "ok" THEN 200 ELSE 500

\* Seeded fault: a session response that is never taken as a failure.
SessionFailed_Never(status_code) == FALSE

\* if session_req_resp.status_code != 200: warn, return
SessionFailed(status_code) == status_code # 200

\* api_sess.post(.../generateFederatedSessionToken) and the status check.
SessionRequest(t) ==
    /\ pc[t] = "session"
    /\ \E status \in Statuses :
        /\ Draw(status # "ok")
        /\ Log(t, [Req(stream[t], "session", <<"session", 0>>, status,
                       status = "err")
                   EXCEPT !.token = IF status = "ok"
                                    THEN FederatedSessionToken(t, stream[t])
                                    ELSE NoToken])
        /\ CASE status = "err" -> StreamRaises(t)
             [] status # "err" /\ SessionFailed(StatusCode(status)) ->
                  StreamReturns(t, "aborted")
             [] OTHER ->
                  /\ pc' = [pc EXCEPT ![t] = "media_uri"]
                  /\ loc' = [loc EXCEPT
                               ![t].session_status = StatusCode(status),
                               ![t].federated_session_token =
                                   FederatedSessionToken(t, stream[t])]
                  /\ UNCHANGED <<stream, result>>
    /\ UNCHANGED prepVars
    /\ UNCHANGED <<mode, args_main, tasks, mpd_start_index, mainPc,
                   submitted, files, mux>>


\* The template file name the media-URI service answers with for a stream.
TemplateEnding(s) == IF s = "video" THEN "clip.mpd" ELSE "file.mpd"

\* api_sess.post(.../getMediaUris), the status check that follows it (it
\* reads session_req_resp.status_code, not media_uri_resp.status_code) and
\* the template lookup in the response body.
MediaUriRequest(t) ==
    /\ pc[t] = "media_uri"
    /\ \E status \in Statuses, template \in BOOLEAN :
        /\ status = "ok" => template
        /\ status = "err" => ~template
        /\ Draw(status # "ok")
        /\ LET returns == status # "err" /\ loc[t].session_status # 200
               raises == status = "err" \/ (~returns /\ ~template)
           IN
           /\ Log(t, Req(stream[t], "media_uri", <<"media_uri", 0>>, status,
                         raises))
           /\ IF raises THEN StreamRaises(t)
              ELSE IF returns THEN StreamReturns(t, "aborted")
              ELSE /\ pc' = [pc EXCEPT ![t] = "manifest"]
                   /\ loc' = [loc EXCEPT ![t].mpd_uri =
                                 [file |-> TemplateEnding(stream[t])]]
                   /\ UNCHANGED <<stream, result>>
    /\ UNCHANGED prepVars
    /\ UNCHANGED <<mode, args_main, tasks, mpd_start_index, mainPc,
                   submitted, files, mux>>

\* RhombusMPDInfo(document, is_audio): the external manifest parser. It
\* yields the init segment name, the segment pattern and the start index of
\* a manifest document, and fails on anything else.
RhombusMPDInfo(doc) ==
    [parsed |-> doc.manifest, init_string |-> <<"init", 0>>,
     start_index |-> doc.start_index]

\* media_sess.get(mpd_uri) and the parse of the document it returns; the
\* response status is not looked at.
ManifestRequest(t) ==
    /\ pc[t] = "manifest"
    /\ \E status \in Statuses :
        /\ Draw(status # "ok")
        /\ LET doc == [manifest |-> status = "ok",
                       start_index |-> mpd_start_index]
               mpd_info == RhombusMPDInfo(doc)
               raises == status = "err" \/ ~mpd_info.parsed
           IN
           /\ Log(t, MediaReq(stream[t], "manifest", <<"manifest", 0>>,
                              status, raises,
                              media_headers(loc[t].federated_session_token)))
           /\ IF raises THEN StreamRaises(t)
              ELSE /\ pc' = [pc EXCEPT ![t] = "open"]
                   /\ loc' = [loc EXCEPT ![t].start_index =
                                                  mpd_info.start_index]
                   /\ UNCHANGED <<stream, result>>
    /\ UNCHANGED prepVars
    /\ UNCHANGED <<mode, args_main, tasks, mpd_start_index, mainPc,
                   submitted, files, mux>>

\* with open(self.video / self.audio, "wb") as output_fp
OpenOutput(t) ==
    /\ pc[t] = "open"
    /\ files' = FileOpenWb(files, StreamFile(t, stream[t]))
    /\ pc' = [pc EXCEPT ![t] = "init"]
    /\ UNCHANGED prepVars
    /\ UNCHANGED <<mode, args_main, tasks, mpd_start_index, faultBudget,
                   mainPc, submitted, stream, loc, reqs, result, mux>>

\* One media_sess.get(uri) inside the with block: a transport error raises
\* (the with block closes the file, what was written stays); any response,
\* whatever its status, is written to the file.
FetchAndWrite(t, kind, uri, status, nextLoc) ==
    /\ Log(t, MediaReq(stream[t], kind, uri.file, status, status = "err",
                       media_headers(loc[t].federated_session_token)))
    /\ IF status = "err"
       THEN /\ StreamRaises(t)
            /\ UNCHANGED files
       ELSE /\ files' = FileWrite(files, StreamFile(t, stream[t]),
                                  [file |-> uri.file, ok |-> status = "ok"])
            /\ pc' = [pc EXCEPT ![t] = "seg"]
            /\ loc' = [loc EXCEPT ![t] = nextLoc]
            /\ UNCHANGED <<stream, result>>

\* The initialization segment: get_segment_uri, get, write, flush.
InitSegment(t) ==
    /\ pc[t] = "init"
    /\ \E status \in Statuses :
        /\ Draw(status # "ok")
        /\ FetchAndWrite(t, "init",
                         get_segment_uri(loc[t].mpd_uri, <<"init", 0>>),
                         status, [loc[t] EXCEPT !.cur_seg = 0])
    /\ UNCHANGED prepVars
    /\ UNCHANGED <<mode, args_main, tasks, mpd_start_index, mainPc,
                   submitted, mux>>

\* One pass of "for cur_seg in range(int(self.duration / 2))".
DataSegment(t) ==
    /\ pc[t] = "seg"
    /\ loc[t].cur_seg \in
           SegmentRange(EngineArgs(args_main, tasks[t], mode).duration)
    /\ \E status \in Statuses :
        /\ Draw(status # "ok")
        /\ FetchAndWrite(t, "seg",
                         get_segment_uri_index(loc[t], loc[t].mpd_uri,
                                               loc[t].cur_seg),
                         status,
                         [loc[t] EXCEPT !.cur_seg = loc[t].cur_seg + 1])
    /\ UNCHANGED prepVars
    /\ UNCHANGED <<mode, args_main, tasks, mpd_start_index, mainPc,
                   submitted, mux>>

\* The loop is exhausted: the with block closes the file and the stream
\* returns after its success log line.
FinishStream(t) ==
    /\ pc[t] = "seg"
    /\ loc[t].cur_seg \notin
           SegmentRange(EngineArgs(args_main, tasks[t], mode).duration)
    /\ StreamReturns(t, "completed")
    /\ UNCHANGED prepVars
    /\ UNCHANGED <<mode, args_main, tasks, mpd_start_index, faultBudget,
                   mainPc, submitted, files, reqs, mux>>

\* ---------------------------------------------------------------- the mux

\* ffmpeg.concat(input_video, input_audio).output(output_file).run(): it
\* fails when an input file is missing and may fail otherwise; on success
\* the combined file exists.
Mux(t) ==
    /\ pc[t] = "mux"
    /\ LET inputs == files[VideoFile(t)].exists /\ files[AudioFile(t)].exists
       IN \E ok \in BOOLEAN :
            /\ ok => inputs
            /\ Draw(~ok /\ inputs)
            /\ IF ok
               THEN /\ files' = [files EXCEPT ![OutputFile(t)] =
                                    [exists |-> TRUE, data |-> <<>>]]
                    /\ mux' = [mux EXCEPT ![t] = "ok"]
                    /\ pc' = [pc EXCEPT ![t] = "rm_audio"]
               ELSE /\ files' = OnMuxError(files, t)
                    /\ mux' = [mux EXCEPT ![t] = "fail"]
                    /\ pc' = [pc EXCEPT ![t] = "done"]
    /\ UNCHANGED prepVars
    /\ UNCHANGED <<mode, args_main, tasks, mpd_start_index, mainPc,
                   submitted, stream, loc, reqs, result>>

\* os.remove(path) inside the try: a missing file raises, the except
\* clause catches it and the worker returns.
Remove(t, path, next) ==
    /\ IF files[path].exists
       THEN /\ files' = FileRemove(files, path)
            /\ pc' = [pc EXCEPT ![t] = next]
       ELSE /\ files' = files
            /\ pc' = [pc EXCEPT ![t] = "done"]
    /\ UNCHANGED prepVars
    /\ UNCHANGED <<mode, args_main, tasks, mpd_start_index, faultBudget,
                   mainPc, submitted, stream, loc, reqs, result, mux>>

RemoveAudio(t) == pc[t] = "rm_audio" /\ Remove(t, AudioFile(t), "rm_video")

RemoveVideo(t) == pc[t] = "rm_video" /\ Remove(t, VideoFile(t), "done")


\* ------------------------------------------------ alerts to download tasks

\* A JSON scalar of an alert: absent/null, an integer, or a (non-empty)
\* text where a number was expected.
JNull == [type |-> "null", val |-> 0]
JInt(n) == [type |-> "int", val |-> n]
JStr == [type |-> "str", val |-> 0]

\* Python truth value of such a scalar: None and 0 are false.
Truthy(j) == j.type = "str" \/ (j.type = "int" /\ j.val # 0)

\* a or b
Or(a, b) == IF Truthy(a) THEN a ELSE b

\* Truth value of an identifier (a text, or None): None and "" are false.
StrTruthy(s) == s # None /\ s # ""
StrOr(a, b) == IF StrTruthy(a) THEN a ELSE b

\* dict.get(key, default): the default stands in for an absent key.
GetOr(v, default) == IF v = None THEN default ELSE v

Max(a, b) == IF a >= b THEN a ELSE b

NoTask == [device_uuid |-> None, start_time |-> 0, duration |-> 0,
           alert_id |-> None, alert_type |-> None, timestamp_ms |-> 0]

\* One iteration of the loop of process_alerts_for_download: what the alert
\* contributes. kind is "task" (appended), "skip" (one of the two continue
\* statements) or "raise" (an exception inside the try: alert.get on an
\* item that is no dict, arithmetic on a text).
download_task(alert, alert_buffer_seconds) ==
    LET alert_timestamp_ms == Or(alert.timestampMs, alert.eventStartMs)
        event_end_ms == alert.eventEndMs
        start_time == (alert_timestamp_ms.val \div 1000)
                          - alert_buffer_seconds
        duration ==
            IF Truthy(event_end_ms)
            THEN ((event_end_ms.val - alert_timestamp_ms.val) \div 1000)
                     + (2 * alert_buffer_seconds)
            ELSE 120 + (2 * alert_buffer_seconds)
        device_uuid == StrOr(alert.deviceUuid, alert.cameraUuid)
    IN  IF ~alert.isDict THEN [kind |-> "raise", task |-> NoTask]
        ELSE IF ~Truthy(alert_timestamp_ms)
        THEN [kind |-> "skip", task |-> NoTask]
        ELSE IF alert_timestamp_ms.type = "str"
        THEN [kind |-> "raise", task |-> NoTask]
        ELSE IF Truthy(event_end_ms) /\ event_end_ms.type = "str"
        THEN [kind |-> "raise", task |-> NoTask]
        ELSE IF ~StrTruthy(device_uuid)
        THEN [kind |-> "skip", task |-> NoTask]
        ELSE [kind |-> "task",
              task |-> [device_uuid |-> device_uuid,
                        start_time |-> Max(0, start_time),
                        duration |-> duration,
                        alert_id |-> GetOr(alert.alertId, "unknown"),
                        alert_type |-> GetOr(alert.alertType, "alert"),
                        timestamp_ms |-> alert_timestamp_ms.val]]

\* Seeded fault: the except clause gives up what was derived so far.
ExceptContinue_Drops(tasks_so_far) == <<>>

\* except Exception: log, continue.
ExceptContinue(tasks_so_far) == tasks_so_far

\* process_alerts_for_download, one alert per step.
ProcessAlert ==
    /\ mainPc = "derive"
    /\ alert_i <= Len(alerts)
    /\ LET r == download_task(alerts[alert_i], opts.alert_buffer) IN
       /\ download_tasks' =
              CASE r.kind = "task" -> Append(download_tasks, r.task)
                [] r.kind = "skip" -> download_tasks
                [] r.kind = "raise" -> ExceptContinue(download_tasks)
       /\ origin' = IF r.kind = "task" THEN Append(origin, alert_i)
                                       ELSE origin
    /\ alert_i' = alert_i + 1
    /\ UNCHANGED <<opts, remote, alerts, camResDict, audResDict, cam_i,
                   camUuidDict, mainLog>>
    /\ UNCHANGED <<mode, args_main, tasks, mpd_start_index, faultBudget,
                   mainPc, submitted, pc, stream, loc, files, reqs, result,
                   mux>>

\* process_alerts_for_download returns; main leaves with sys.exit(0) when
\* no task was derived, and goes on to the device directory otherwise.
ProcessAlertsReturn ==
    /\ mainPc = "derive"
    /\ alert_i > Len(alerts)
    /\ mainPc' = IF download_tasks = <<>> THEN "exit" ELSE "resolve_cam"
    /\ UNCHANGED prepVars
    /\ UNCHANGED <<mode, args_main, tasks, mpd_start_index, faultBudget,
                   submitted, pc, stream, loc, files, reqs, result, mux>>


\* ---------------------------------------------------- fetching the alerts

\* A response of the remote API to one of main's calls: status is "ok"
\* (200), "bad" (any other status) or "err" (requests raises); body is
\* "data" (the JSON document asked for), "error" (a JSON document without
\* the expected key), or "undecodable" (no JSON); data is the list the
\* document carries.
Response(status, body, data) ==
    [status |-> status, body |-> body, data |-> data]

\* Seeded fault: the alerts of a non-success response are used.
AlertsOnFailure_KeepsBody(response) ==
    IF response.body = "data" THEN response.data ELSE <<>>

\* if response.status_code != 200: return []; except Exception: return []
AlertsOnFailure(response) == <<>>

\* get_policy_alerts: what it returns for the response it got.
get_policy_alerts(response) ==
    IF response.status # "ok" THEN AlertsOnFailure(response)
    ELSE IF response.body = "undecodable" THEN AlertsOnFailure(response)
    ELSE IF response.body = "error" THEN <<>>
    ELSE response.data

\* Alert mode: get_policy_alerts, then sys.exit(0) when the list is empty.
FetchAlerts ==
    /\ mainPc = "fetch_alerts"
    /\ mainLog' = Append(mainLog, "getPolicyAlerts")
    /\ alerts' = get_policy_alerts(remote.alerts_resp)
    /\ alert_i' = 1
    /\ mainPc' = IF alerts' = <<>> THEN "exit" ELSE "derive"
    /\ UNCHANGED <<opts, remote, download_tasks, camResDict, audResDict,
                   cam_i, camUuidDict, origin>>
    /\ UNCHANGED <<mode, args_main, tasks, mpd_start_index, faultBudget,
                   submitted, pc, stream, loc, files, reqs, result, mux>>

\* ------------------------------------------------- the device directory

\* json.loads(response.text) of a directory response; the request raises on
\* a transport error and json.loads on a body that is no JSON. The status
\* code is not looked at.
DirectoryRaises(response) ==
    response.status = "err" \/ response.body = "undecodable"

\* The decoded document: whether it has the list's key, and the list.
Decoded(response) ==
    [hasKey |-> response.body = "data", states |-> response.data]

NoDocument == [hasKey |-> FALSE, states |-> <<>>]

\* requests.post(url_cam); json.loads
FetchCameraStates ==
    /\ mainPc = "resolve_cam"
    /\ mainLog' = Append(mainLog, "getMinimalCameraStateList")
    /\ IF DirectoryRaises(remote.cam_resp)
       THEN mainPc' = "raised" /\ UNCHANGED camResDict
       ELSE mainPc' = "resolve_aud"
            /\ camResDict' = Decoded(remote.cam_resp)
    /\ UNCHANGED <<opts, remote, alerts, alert_i, download_tasks,
                   audResDict, cam_i, camUuidDict, origin>>
    /\ UNCHANGED <<mode, args_main, tasks, mpd_start_index, faultBudget,
                   submitted, pc, stream, loc, files, reqs, result, mux>>

\* requests.post(url_aud); json.loads; next is the loop over the cameras.
FetchAudioGatewayStates ==
    /\ mainPc = "resolve_aud"
    /\ mainLog' = Append(mainLog, "getMinimalAudioGatewayStateList")
    /\ IF DirectoryRaises(remote.aud_resp)
       THEN mainPc' = "raised" /\ UNCHANGED <<audResDict, cam_i>>
       ELSE mainPc' = "map"
            /\ audResDict' = Decoded(remote.aud_resp)
            /\ cam_i' = 1
    /\ UNCHANGED <<opts, remote, alerts, alert_i, download_tasks,
                   camResDict, camUuidDict, origin>>
    /\ UNCHANGED <<mode, args_main, tasks, mpd_start_index, faultBudget,
                   submitted, pc, stream, loc, files, reqs, result, mux>>

Range(seq) == {seq[k] : k \in 1..Len(seq)}

\* Seeded fault: a camera passes when either filter accepts it.
PassesFilters_Either(cam, location_uuid, camera_uuid) ==
    \/ location_uuid = None \/ cam.locationUuid = location_uuid
    \/ camera_uuid = None \/ cam.uuid = camera_uuid

\* The two filter tests of the camera loop (neither continue is taken).
PassesFilters(cam, location_uuid, camera_uuid) ==
    /\ ~(location_uuid # None /\ cam.locationUuid # location_uuid)
    /\ ~(camera_uuid # None /\ cam.uuid # camera_uuid)

\* camUuidDict[key] = {"name": ...}: a new key goes last, a known key keeps
\* its place and loses its former value.
DictSet(dict, key) ==
    LET entry == [uuid |-> key, audioGatewayUuid |-> None] IN
    IF \E k \in 1..Len(dict) : dict[k].uuid = key
    THEN [k \in 1..Len(dict) |->
              IF dict[k].uuid = key THEN entry ELSE dict[k]]
    ELSE Append(dict, entry)

\* Seeded fault: a camera keeps the first gateway that lists it.
Associate_FirstWins(dict, audioGateway) ==
    [k \in 1..Len(dict) |->
        IF /\ dict[k].uuid \in Range(audioGateway.associatedCameras)
           /\ dict[k].audioGatewayUuid = None
        THEN [dict[k] EXCEPT !.audioGatewayUuid = audioGateway.uuid]
        ELSE dict[k]]

\* for cameraUuid in audioGateway["associatedCameras"]:
\*     if cameraUuid in camUuidDict: ...["audioGatewayUuid"] = its uuid
Associate(dict, audioGateway) ==
    [k \in 1..Len(dict) |->
        IF dict[k].uuid \in Range(audioGateway.associatedCameras)
        THEN [dict[k] EXCEPT !.audioGatewayUuid = audioGateway.uuid]
        ELSE dict[k]]

\* for audioGateway in audResDict["audioGatewayStates"]: ...
RECURSIVE AssociateAll(_, _)
AssociateAll(dict, audioGatewayStates) ==
    IF audioGatewayStates = <<>> THEN dict
    ELSE AssociateAll(Associate(dict, Head(audioGatewayStates)),
                      Tail(audioGatewayStates))

\* One iteration of the loop over camResDict["cameraStates"]; reading a
\* missing key of either document raises KeyError.
MapCamera ==
    /\ mainPc = "map"
    /\ IF ~camResDict.hasKey
       THEN mainPc' = "raised" /\ UNCHANGED <<cam_i, camUuidDict>>
       ELSE /\ cam_i <= Len(camResDict.states)
            /\ LET cam == camResDict.states[cam_i] IN
               IF \/ cam.connectionStatus = "RED"
                  \/ ~PassesFilters(cam, opts.location_uuid,
                                    opts.camera_uuid)
               THEN /\ cam_i' = cam_i + 1
                    /\ UNCHANGED <<mainPc, camUuidDict>>
               ELSE IF ~audResDict.hasKey
               THEN /\ mainPc' = "raised"
                    /\ camUuidDict' = DictSet(camUuidDict, cam.uuid)
                    /\ UNCHANGED cam_i
               ELSE /\ camUuidDict' =
                           AssociateAll(DictSet(camUuidDict, cam.uuid),
                                        audResDict.states)
                    /\ cam_i' = cam_i + 1
                    /\ UNCHANGED mainPc
    /\ UNCHANGED <<opts, remote, alerts, alert_i, download_tasks,
                   camResDict, audResDict, origin, mainLog>>
    /\ UNCHANGED <<mode, args_main, tasks, mpd_start_index, faultBudget,
                   submitted, pc, stream, loc, files, reqs, result, mux>>

\* dict lookup by key (the for/break of the submit loop; .get(..., None)).
GatewayOf(dict, device_uuid) ==
    IF \E k \in 1..Len(dict) : dict[k].uuid = device_uuid
    THEN LET k == CHOOSE k \in 1..Len(dict) : dict[k].uuid = device_uuid
         IN  dict[k].audioGatewayUuid
    ELSE None

\* Seeded fault: in alert mode one work item per device, the first task of
\* each.
WorkItems_OnePerDevice(m, base_args, dtasks, dict) ==
    IF m = "alert"
    THEN LET all == [i \in 1..Len(dtasks) |-> i]
             First(i) == \A j \in 1..(i - 1) :
                            dtasks[j].device_uuid # dtasks[i].device_uuid
             kept == SelectSeq(all, First)
         IN  [i \in 1..Len(kept) |->
                [device_uuid |-> dtasks[kept[i]].device_uuid,
                 alert_id |-> dtasks[kept[i]].alert_id,
                 alert_type |-> dtasks[kept[i]].alert_type,
                 start_time |-> dtasks[kept[i]].start_time,
                 duration |-> dtasks[kept[i]].duration,
                 audioGatewayUuid |->
                     GatewayOf(dict, dtasks[kept[i]].device_uuid)]]
    ELSE [i \in 1..Len(dict) |->
            [device_uuid |-> dict[i].uuid, alert_id |-> 0,
             start_time |-> base_args.start_time,
             duration |-> base_args.duration,
             audioGatewayUuid |-> dict[i].audioGatewayUuid]]

\* The work items of the submit loop: one per download task (alert mode),
\* one per entry of camUuidDict (manual mode).
WorkItems(m, base_args, dtasks, dict) ==
    IF m = "alert"
    THEN [i \in 1..Len(dtasks) |->
            [device_uuid |-> dtasks[i].device_uuid,
             alert_id |-> dtasks[i].alert_id,
             alert_type |-> dtasks[i].alert_type,
             start_time |-> dtasks[i].start_time,
             duration |-> dtasks[i].duration,
             audioGatewayUuid |-> GatewayOf(dict, dtasks[i].device_uuid)]]
    ELSE [i \in 1..Len(dict) |->
            [device_uuid |-> dict[i].uuid, alert_id |-> 0,
             start_time |-> base_args.start_time,
             duration |-> base_args.duration,
             audioGatewayUuid |-> dict[i].audioGatewayUuid]]

TaskPaths(base_args, ts, m) ==
    {<<FileStem(base_args, ts[t], m), k>> :
        t \in DOMAIN ts, k \in {"video", "audio", "combined"}}

\* get_camera_to_gateway_map returns camUuidDict and main enters the
\* with ThreadPoolExecutor block.
EnterPool ==
    /\ mainPc = "map"
    /\ camResDict.hasKey
    /\ cam_i > Len(camResDict.states)
    /\ mainPc' = "submit"
    /\ LET ts == WorkItems(mode, args_main, download_tasks, camUuidDict) IN
       /\ tasks' = ts
       /\ submitted' = 0
       /\ pc' = [t \in DOMAIN ts |-> "new"]
       /\ stream' = [t \in DOMAIN ts |-> "video"]
       /\ loc' = [t \in DOMAIN ts |-> NoLocals]
       /\ files' = [p \in TaskPaths(args_main, ts, mode) |-> NoFile]
       /\ reqs' = [t \in DOMAIN ts |-> <<>>]
       /\ result' = [t \in DOMAIN ts |-> [s \in Streams |-> "none"]]
       /\ mux' = [t \in DOMAIN ts |-> "none"]
    /\ UNCHANGED prepVars
    /\ UNCHANGED <<mode, args_main, mpd_start_index, faultBudget>>

\* ------------------------------------------------------------------- runs

Durations == (-1)..MaxDuration
Gateways == {None, "gw"}
StartIndexes == {0, 1}

\* Alert mode: download_tasks, each with its own window; here one alert, or
\* two alerts of one camera with distinct alert ids. args_main keeps its
\* own window.
AlertRuns ==
    UNION { { [mode |-> "alert",
               args_main |-> [start_time |-> 0, duration |-> 1,
                     usewan |-> FALSE],
               tasks |-> [i \in 1..n |->
                            [device_uuid |-> 1,
                             alert_id |-> <<"a1", "a2">>[i],
                             alert_type |-> "motion",
                             start_time |-> 10, duration |-> d[i],
                             audioGatewayUuid |-> g]]] :
              d \in [1..n -> Durations], g \in Gateways } :
            n \in {1, 2} }

\* Manual mode: one work item per camera of camUuidDict (none, one or two
\* cameras), all with the window of args_main.
ManualRuns ==
    UNION { { [mode |-> "manual",
               args_main |-> [start_time |-> 0, duration |-> d,
                     usewan |-> FALSE],
               tasks |-> [i \in 1..n |->
                            [device_uuid |-> i, alert_id |-> 0,
                             start_time |-> 0, duration |-> d,
                             audioGatewayUuid |-> g[i]]]] :
              d \in Durations, g \in [1..n -> Gateways] } :
            n \in {0, 1, 2} }

\* A manual run over up to maxTasks cameras of which the first has a
\* companion audio gateway, with a window of one segment.
PoolRuns(maxTasks) ==
    { [mode |-> "manual",
       args_main |-> [start_time |-> 0, duration |-> 2,
                     usewan |-> FALSE],
       tasks |-> [i \in 1..n |->
                    [device_uuid |-> i, alert_id |-> 0, start_time |-> 0,
                     duration |-> 2,
                     audioGatewayUuid |-> IF i = 1 THEN "gw" ELSE None]]] :
      n \in 1..maxTasks }

NoOpts == [alert_buffer |-> 0, location_uuid |-> None, camera_uuid |-> None]
NoResponse == Response("ok", "data", <<>>)
NoRemote == [alerts_resp |-> NoResponse, cam_resp |-> NoResponse,
             aud_resp |-> NoResponse]

\* A run taken up at the pool: what main computed on the way is not kept.
PrepNotKept ==
    /\ opts = NoOpts
    /\ remote = NoRemote
    /\ alerts = <<>>
    /\ alert_i = 1
    /\ download_tasks = <<>>
    /\ camResDict = NoDocument
    /\ audResDict = NoDocument
    /\ cam_i = 1
    /\ camUuidDict = <<>>
    /\ origin = <<>>
    /\ mainLog = <<>>

\* Before the pool: no work item, no worker, no file.
PoolNotEntered ==
    /\ tasks = <<>>
    /\ submitted = 0
    /\ pc = <<>>
    /\ stream = <<>>
    /\ loc = <<>>
    /\ files = <<>>
    /\ reqs = <<>>
    /\ result = <<>>
    /\ mux = <<>>

\* ---- alert feeds

Alert(ts, alt, end, dev, id) ==
    [isDict |-> TRUE, timestampMs |-> ts, eventStartMs |-> alt,
     eventEndMs |-> end, deviceUuid |-> dev[1], cameraUuid |-> dev[2],
     alertId |-> id, alertType |-> "motion"]

\* A list item that is no JSON object.
NotADict ==
    [isDict |-> FALSE, timestampMs |-> JNull, eventStartMs |-> JNull,
     eventEndMs |-> JNull, deviceUuid |-> None, cameraUuid |-> None,
     alertId |-> None, alertType |-> None]

TimestampValues == {JNull, JInt(0), JInt(1500), JStr}
EventStartValues == {JNull, JInt(2500)}
EventEndValues == {JNull, JInt(0), JInt(1000), JInt(3999)}
DeviceValues == {<<None, None>>, <<"c1", None>>, <<"", "c2">>}
AlertIds == {"a1", "a2"}

Alerts ==
    { Alert(ts, alt, end, dev, id) :
        ts \in TimestampValues, alt \in EventStartValues,
        end \in EventEndValues, dev \in DeviceValues, id \in AlertIds }
    \cup {NotADict}

\* Three alerts of which any may lack the device id, the timestamps, or
\* carry timestamp 0.
ScenarioAlerts ==
    { Alert(JInt(1500), JNull, JInt(3999), <<"c1", None>>, "a1"),
      Alert(JInt(1500), JNull, JNull, <<None, None>>, "a2"),
      Alert(JNull, JNull, JNull, <<"c1", None>>, "a2"),
      Alert(JInt(0), JNull, JInt(3999), <<"c1", None>>, "a2") }

AlertFeeds ==
    UNION { [1..n -> Alerts] : n \in {0, 1, 2} }
    \cup [1..3 -> ScenarioAlerts]

\* process_alerts_for_download is entered with a feed and a buffer.
InitDerive ==
    /\ mode = "alert"
    /\ args_main = [start_time |-> 0, duration |-> 1,
                     usewan |-> FALSE]
    /\ mpd_start_index = 1
    /\ faultBudget = 0
    /\ mainPc = "derive"
    /\ PoolNotEntered
    /\ \E b \in 0..MaxBuffer : opts = [NoOpts EXCEPT !.alert_buffer = b]
    /\ \E feed \in AlertFeeds :
          /\ remote = [NoRemote EXCEPT
                          !.alerts_resp = Response("ok", "data", feed)]
          /\ alerts = feed
    /\ alert_i = 1
    /\ download_tasks = <<>>
    /\ camResDict = NoDocument
    /\ audResDict = NoDocument
    /\ cam_i = 1
    /\ camUuidDict = <<>>
    /\ origin = <<>>
    /\ mainLog = <<"getPolicyAlerts">>

NextDerive ==
    \/ ProcessAlert
    \/ ProcessAlertsReturn

SpecDerive == InitDerive /\ [][NextDerive]_vars

\* ---- device directories

CameraStates ==
    { [uuid |-> u, connectionStatus |-> c, locationUuid |-> l] :
        u \in {"c1", "c2"}, c \in {"GREEN", "RED"}, l \in {"L1", "L2"} }

AudioGatewayStates ==
    { [uuid |-> g, associatedCameras |-> a] :
        g \in {"g1", "g2"},
        a \in {<<>>, <<"c1">>, <<"c2", "c1">>, <<"c3">>} }

ListsUpTo2(S) == UNION { [1..n -> S] : n \in {0, 1, 2} }

\* Directory answers that are not a success with the document asked for.
FailedResponses(data) ==
    { Response("err", "none", <<>>), Response("bad", "error", <<>>),
      Response("bad", "undecodable", <<>>), Response("bad", "data", data) }

\* A small directory: two healthy cameras, a gateway for the first.
SmallCameras ==
    << [uuid |-> "c1", connectionStatus |-> "GREEN", locationUuid |-> "L1"],
       [uuid |-> "c2", connectionStatus |-> "GREEN", locationUuid |-> "L1"] >>
SmallGateways == << [uuid |-> "g1", associatedCameras |-> <<"c1">>] >>

\* The answers to the two directory calls: both succeed, over all small
\* directories; or one of the two fails, over the small directory and over
\* a directory without cameras.
DirectoryAnswers ==
    { [cam_resp |-> Response("ok", "data", cams),
       aud_resp |-> Response("ok", "data", gws)] :
        cams \in ListsUpTo2(CameraStates),
        gws \in ListsUpTo2(AudioGatewayStates) }
    \cup
    { [cam_resp |-> r, aud_resp |-> Response("ok", "data", SmallGateways)] :
        r \in FailedResponses(SmallCameras) }
    \cup
    { [cam_resp |-> Response("ok", "data", cams), aud_resp |-> r] :
        cams \in {SmallCameras, <<>>},
        r \in FailedResponses(SmallGateways) }

\* Manual mode: get_camera_to_gateway_map is entered with the filters.
InitResolve ==
    /\ mode = "manual"
    /\ args_main = [start_time |-> 0, duration |-> 2,
                     usewan |-> FALSE]
    /\ mpd_start_index = 1
    /\ faultBudget = 0
    /\ mainPc = "resolve_cam"
    /\ PoolNotEntered
    /\ \E l \in {None, "L1"}, c \in {None, "c1"} :
          opts = [NoOpts EXCEPT !.location_uuid = l, !.camera_uuid = c]
    /\ \E d \in DirectoryAnswers :
          remote = [NoRemote EXCEPT !.cam_resp = d.cam_resp,
                                    !.aud_resp = d.aud_resp]
    /\ alerts = <<>>
    /\ alert_i = 1
    /\ download_tasks = <<>>
    /\ camResDict = NoDocument
    /\ audResDict = NoDocument
    /\ cam_i = 1
    /\ camUuidDict = <<>>
    /\ origin = <<>>
    /\ mainLog = <<>>

NextResolve ==
    \/ FetchCameraStates
    \/ FetchAudioGatewayStates
    \/ MapCamera
    \/ EnterPool

SpecResolve == InitResolve /\ [][NextResolve]_vars

\* The state when main reaches the with ThreadPoolExecutor statement.
InitRun(run, budget, startIndexes) ==
    /\ mode = run.mode
    /\ args_main = run.args_main
    /\ tasks = run.tasks
    /\ mpd_start_index \in startIndexes
    /\ faultBudget = budget
    /\ mainPc = "submit"
    /\ submitted = 0
    /\ pc = [t \in DOMAIN run.tasks |-> "new"]
    /\ stream = [t \in DOMAIN run.tasks |-> "video"]
    /\ loc = [t \in DOMAIN run.tasks |-> NoLocals]
    /\ files = [p \in Paths |-> NoFile]
    /\ reqs = [t \in DOMAIN run.tasks |-> <<>>]
    /\ result = [t \in DOMAIN run.tasks |-> [s \in Streams |-> "none"]]
    /\ mux = [t \in DOMAIN run.tasks |-> "none"]
    /\ PrepNotKept

\* Runs of up to two tasks, with remote faults.
Init == \E run \in AlertRuns \cup ManualRuns : InitRun(run, MaxFaults, StartIndexes)

\* Runs of more tasks than the pool has workers, every remote call
\* succeeding.
InitPool == \E run \in PoolRuns(MaxPoolTasks) : InitRun(run, 0, {1})

Next ==
    \/ Submit
    \/ PoolExit
    \/ \E t \in Tasks : StartTask(t)
    \/ \E t \in Tasks : SessionRequest(t)
    \/ \E t \in Tasks : MediaUriRequest(t)
    \/ \E t \in Tasks : ManifestRequest(t)
    \/ \E t \in Tasks : OpenOutput(t)
    \/ \E t \in Tasks : InitSegment(t)
    \/ \E t \in Tasks : DataSegment(t)
    \/ \E t \in Tasks : FinishStream(t)
    \/ \E t \in Tasks : Mux(t)
    \/ \E t \in Tasks : RemoveAudio(t)
    \/ \E t \in Tasks : RemoveVideo(t)

Spec == Init /\ [][Next]_vars

SpecPool == InitPool /\ [][Next]_vars

\* Runs of up to two tasks with remote faults in which a step that can be
\* taken is eventually taken: every remote call and every ffmpeg run
\* returns or fails, pool threads and main are scheduled.
SpecFair == Init /\ [][Next]_vars /\ WF_vars(Next)

\* ---- the whole of main

\* Alerts with windows of one or two segments; two of the first camera
\* differ only in a hyphen of the alert id.
MainAlerts ==
    { Alert(JInt(5000), JNull, JInt(7000), <<"c1", None>>, "a1"),
      Alert(JInt(5000), JNull, JInt(7000), <<"c1", None>>, "a-1"),
      Alert(JInt(9000), JNull, JInt(11000), <<"c2", None>>, "a2"),
      Alert(JInt(5000), JNull, JInt(7000), <<None, None>>, "a2") }

MainFeeds == ListsUpTo2(MainAlerts)

\* The answers to getPolicyAlerts: a success with the feed, a success whose
\* body is no JSON or lacks the list, a non-success status (whatever the
\* body), a transport error.
AlertAnswers ==
    { Response(st, body, feed) :
        st \in {"ok", "bad"}, body \in {"data", "error", "undecodable"},
        feed \in MainFeeds }
    \cup {Response("err", "none", <<>>)}

\* The small directory with its second camera disconnected.
SecondRed == [SmallCameras EXCEPT ![2].connectionStatus = "RED"]

\* The answers to the two directory calls, over the small directory.
MainDirectoryAnswers ==
    { [cam_resp |-> c, aud_resp |-> a] :
        c \in {Response("ok", "data", SmallCameras),
               Response("ok", "data", SecondRed)}
                  \cup FailedResponses(SmallCameras),
        a \in {Response("ok", "data", SmallGateways)}
                  \cup FailedResponses(SmallGateways) }

\* The state after parse_args, in either mode, for the answers the remote
\* side gives to main and the faults it may give to the workers.
MainStart(alertAnswers, directoryAnswers, buffers, budget) ==
    /\ mode \in {"alert", "manual"}
    /\ args_main = [start_time |-> 0, duration |-> 2,
                     usewan |-> TRUE]
    /\ mpd_start_index = 1
    /\ faultBudget = budget
    /\ mainPc = IF mode = "alert" THEN "fetch_alerts" ELSE "resolve_cam"
    /\ PoolNotEntered
    /\ \E b \in buffers : opts = [NoOpts EXCEPT !.alert_buffer = b]
    /\ \E r \in alertAnswers, d \in directoryAnswers :
          remote = [alerts_resp |-> IF mode = "alert" THEN r ELSE NoResponse,
                    cam_resp |-> d.cam_resp, aud_resp |-> d.aud_resp]
    /\ alerts = <<>>
    /\ alert_i = 1
    /\ download_tasks = <<>>
    /\ camResDict = NoDocument
    /\ audResDict = NoDocument
    /\ cam_i = 1
    /\ camUuidDict = <<>>
    /\ origin = <<>>
    /\ mainLog = <<>>

NextMain ==
    \/ FetchAlerts
    \/ ProcessAlert
    \/ ProcessAlertsReturn
    \/ FetchCameraStates
    \/ FetchAudioGatewayStates
    \/ MapCamera
    \/ EnterPool
    \/ Next

\* Every remote call of the workers succeeds.
InitMain == MainStart(AlertAnswers, MainDirectoryAnswers, {0, 1}, 0)

SpecMain == InitMain /\ [][NextMain]_vars

\* ---- main with failing workers

\* Alerts of two cameras, two of them of the first camera.
DispatchAlerts ==
    { Alert(JInt(5000), JNull, JInt(7000), <<"c1", None>>, "a1"),
      Alert(JInt(9000), JNull, JInt(11000), <<"c1", None>>, "a2"),
      Alert(JInt(9000), JNull, JInt(11000), <<"c2", None>>, "a2") }

\* Every call of main succeeds; one remote call of a worker may fail.
InitDispatch ==
    MainStart({Response("ok", "data", feed) :
                  feed \in ListsUpTo2(DispatchAlerts)},
              {[cam_resp |-> Response("ok", "data", SmallCameras),
                aud_resp |-> Response("ok", "data", SmallGateways)]},
              {0}, 1)

SpecDispatch == InitDispatch /\ [][NextMain]_vars


\* ------------------------------------------------------------ properties

TaskDuration(t) == IF mode = "alert" THEN tasks[t].duration
                                     ELSE args_main.duration
HasAudio(t) == tasks[t].audioGatewayUuid # None
Ended(r) == r \in {"completed", "aborted"}
StreamReqs(t, s, kind) ==
    LET Is(e) == e.stream = s /\ e.kind = kind IN SelectSeq(reqs[t], Is)
NumRunning == Cardinality({t \in Tasks : Running(pc, t)})

\* C1: in every reachable state the number of worker calls that have
\* started and not yet finished is at most the concurrency limit (4).
C1_ConcurrencyBounded == NumRunning <= 4

\* Four calls run while a fifth waits in the queue.
C1_Witness == NumRunning = 4 /\ \E t \in Tasks : pc[t] = "queued"

\* C2: a task fails only by an exception of its own (the last request it
\* issued raised); the run never stops before the report, and reaches the
\* report only when every task was started and has completed or failed.
C2_FailureIsolated ==
    /\ \A t \in Tasks :
         pc[t] = "failed" =>
            reqs[t] # <<>> /\ reqs[t][Len(reqs[t])].raised
    /\ mainPc = "report" =>
         \A t \in Tasks : pc[t] \in Terminal /\ reqs[t] # <<>>
    /\ mainPc = "report" \/ ENABLED Next

\* The run is over, one task has failed and its sibling has completed.
C2_Witness ==
    /\ mainPc = "report"
    /\ \E t, u \in Tasks :
         /\ pc[t] = "failed"
         /\ pc[u] = "done"
         /\ result[u]["video"] = "completed"

\* C3: at every moment the content of a stream's file is a prefix of
\* init, seg 0, seg 1, ...: the initialization segment first, then the data
\* segments in increasing index order, each once.
C3_OrderedWrites ==
    \A t \in Tasks : \A s \in Streams :
        LET data == files[StreamFile(t, s)].data IN
        \A k \in 1..Len(data) :
            data[k].file = IF k = 1 THEN <<"init", 0>>
                           ELSE <<"seg", mpd_start_index + (k - 2)>>

\* A file holds the initialization segment and two data segments.
C3_Witness ==
    \E t \in Tasks : \E s \in Streams :
        Len(files[StreamFile(t, s)].data) >= 3

\* C4: a stream that completes has requested floor(duration/2) data
\* segments (none when duration < 2), the i-th (from 0) by the segment name
\* numbered start_index + i.
C4_SegmentCount ==
    \A t \in Tasks : \A s \in Streams :
        result[t][s] = "completed" =>
            LET segs == StreamReqs(t, s, "seg")
                d == TaskDuration(t)
            IN /\ Len(segs) = IF d < 2 THEN 0 ELSE d \div 2
               /\ \A i \in 1..Len(segs) :
                    segs[i].file = <<"seg", mpd_start_index + (i - 1)>>

\* A stream of odd duration 3 has completed, with start index 1.
C4_Witness ==
    /\ mpd_start_index = 1
    /\ \E t \in Tasks : \E s \in Streams :
         result[t][s] = "completed" /\ TaskDuration(t) = 3

\* C5: in a task with a companion audio device no audio request is issued
\* before the video stream has ended, no video request follows an audio
\* request, and the mux is not invoked before the audio stream has ended.
C5_VideoAudioMux ==
    \A t \in Tasks :
        HasAudio(t) =>
            /\ (\E k \in 1..Len(reqs[t]) : reqs[t][k].stream = "audio")
                  => Ended(result[t]["video"])
            /\ \A j, k \in 1..Len(reqs[t]) :
                  j < k /\ reqs[t][j].stream = "audio"
                     => reqs[t][k].stream = "audio"
            /\ (mux[t] # "none" \/ pc[t] \in {"mux", "rm_audio", "rm_video"})
                  => Ended(result[t]["video"]) /\ Ended(result[t]["audio"])

\* The mux has run after both streams issued their requests.
C5_Witness ==
    \E t \in Tasks :
        /\ mux[t] # "none"
        /\ Len(StreamReqs(t, "video", "seg")) > 0
        /\ Len(StreamReqs(t, "audio", "seg")) > 0

\* C6: the mux is invoked for a task only after both of its streams have
\* completed; it is never invoked after a stream was aborted.
C6_MuxOnlyAfterSuccess ==
    \A t \in Tasks :
        mux[t] # "none" =>
            /\ result[t]["video"] = "completed"
            /\ result[t]["audio"] = "completed"

\* C7: a data segment fetch that fails (transport error or non-success
\* response) is the last request of its stream, and its response is not
\* written to the file.
C7_SegmentFailureAborts ==
    \A t \in Tasks : \A k \in 1..Len(reqs[t]) :
        LET e == reqs[t][k] IN
        (e.kind = "seg" /\ e.status # "ok") =>
            /\ \A j \in (k + 1)..Len(reqs[t]) : reqs[t][j].stream # e.stream
            /\ LET data == files[StreamFile(t, e.stream)].data IN
               \A n \in 1..Len(data) : data[n].ok

\* C8: after a non-success media-URI response, or a manifest response that
\* is no manifest document, the stream issues no init or data segment
\* request and opens no output file.
C8_NoDownloadWithoutManifest ==
    \A t \in Tasks : \A k \in 1..Len(reqs[t]) :
        LET e == reqs[t][k] IN
        (e.kind \in {"media_uri", "manifest"} /\ e.status = "bad") =>
            /\ \A j \in (k + 1)..Len(reqs[t]) :
                  ~(reqs[t][j].stream = e.stream
                    /\ reqs[t][j].kind \in {"init", "seg"})
            /\ ~files[StreamFile(t, e.stream)].exists

\* C9: when the mux of a task with a companion audio device succeeded
\* after both streams completed, at task end the video and audio files are
\* gone and the combined file is the one file left.
C9_OnlyCombinedRemains ==
    \A t \in Tasks :
        (/\ HasAudio(t)
         /\ mux[t] = "ok"
         /\ result[t]["video"] = "completed"
         /\ result[t]["audio"] = "completed"
         /\ pc[t] \in Terminal) =>
            /\ pc[t] = "done"
            /\ ~files[VideoFile(t)].exists
            /\ ~files[AudioFile(t)].exists
            /\ files[OutputFile(t)].exists

\* A task has ended after a successful mux.
C9_Witness ==
    \E t \in Tasks :
        /\ HasAudio(t)
        /\ mux[t] = "ok"
        /\ result[t]["video"] = "completed"
        /\ result[t]["audio"] = "completed"
        /\ pc[t] = "done"

\* C10: when the mux fails, the worker returns normally and the file of
\* every stream that had completed is still there.
C10_MuxFailureKeepsFiles ==
    \A t \in Tasks :
        mux[t] = "fail" =>
            /\ pc[t] = "done"
            /\ \A s \in Streams :
                  result[t][s] = "completed" =>
                      /\ files[StreamFile(t, s)].exists
                      /\ files[StreamFile(t, s)].data # <<>>

\* The mux has failed on two complete input files.
C10_Witness ==
    \E t \in Tasks :
        /\ mux[t] = "fail"
        /\ result[t]["video"] = "completed"
        /\ result[t]["audio"] = "completed"

\* C11: a task whose device has no companion audio id issues no audio
\* request and never reaches the mux; neither an audio file nor a combined
\* file is produced for it, and once its video stream has completed the
\* video file is its one output file.
C11_VideoOnly ==
    \A t \in Tasks :
        ~HasAudio(t) =>
            /\ \A k \in 1..Len(reqs[t]) : reqs[t][k].stream = "video"
            /\ result[t]["audio"] = "none"
            /\ mux[t] = "none"
            /\ pc[t] \notin {"mux", "rm_audio", "rm_video"}
            /\ ~files[AudioFile(t)].exists
            /\ ~files[OutputFile(t)].exists
            /\ result[t]["video"] = "completed" =>
                  /\ files[VideoFile(t)].exists
                  /\ pc[t] = "done"

\* A video-only task has ended with its video file written.
C11_Witness ==
    \E t \in Tasks :
        /\ ~HasAudio(t)
        /\ pc[t] = "done"
        /\ result[t]["video"] = "completed"
        /\ Len(files[VideoFile(t)].data) >= 2

\* C12: a task whose device has a companion audio id that has ended has
\* issued at least one video request and at least one audio request,
\* however its video stream ended.
C12_AudioAlwaysStarted ==
    \A t \in Tasks :
        (HasAudio(t) /\ pc[t] \in Terminal) =>
            /\ \E k \in 1..Len(reqs[t]) : reqs[t][k].stream = "video"
            /\ \E k \in 1..Len(reqs[t]) : reqs[t][k].stream = "audio"

\* ---- properties of process_alerts_for_download

\* The alert a derived task came from.
AlertOf(k) == alerts[origin[k]]

LacksTimestamp(alert) ==
    alert.timestampMs.type = "null" /\ alert.eventStartMs.type = "null"
LacksDevice(alert) ==
    ~StrTruthy(alert.deviceUuid) /\ ~StrTruthy(alert.cameraUuid)

\* An alert that carries a numeric timestamp (primary or alternate field,
\* any value >= 0) and a device id.
CarriesTimestamp(alert) ==
    \/ alert.timestampMs.type = "int" /\ alert.timestampMs.val >= 0
    \/ alert.timestampMs.type = "null"
          /\ alert.eventStartMs.type = "int" /\ alert.eventStartMs.val >= 0
ValidAlert(alert) ==
    alert.isDict /\ CarriesTimestamp(alert) /\ ~LacksDevice(alert)

\* The same, with timestamps and end timestamps that are not 0.
PlainAlert(alert) ==
    /\ alert.isDict /\ ~LacksDevice(alert)
    /\ alert.timestampMs.type # "str"
    /\ Truthy(alert.timestampMs) \/ Truthy(alert.eventStartMs)

Indices(P(_)) ==
    LET all == [k \in 1..Len(alerts) |-> k]
        Keep(k) == P(alerts[k])
    IN  SelectSeq(all, Keep)

Derived == mainPc # "derive"

\* C13: every derived task has start_time = max(0, floor(t_ms/1000) - b),
\* duration = floor((end_ms - t_ms)/1000) + 2b when its alert has an end
\* timestamp, and duration = 120 + 2b when it has none.
C13_WindowArithmetic ==
    \A k \in 1..Len(download_tasks) :
        LET task == download_tasks[k]
            end == AlertOf(k).eventEndMs
            t_ms == task.timestamp_ms
            b == opts.alert_buffer
        IN  /\ task.start_time = Max(0, (t_ms \div 1000) - b)
            /\ end.type = "int" =>
                  task.duration = ((end.val - t_ms) \div 1000) + 2 * b
            /\ end.type = "null" => task.duration = 120 + 2 * b

\* C14: every derived task has start_time >= 0 and duration > 0.
C14_WellFormedTask ==
    \A k \in 1..Len(download_tasks) :
        download_tasks[k].start_time >= 0 /\ download_tasks[k].duration > 0

\* C15: the derivation never raises and always goes on to the next alert;
\* an alert without timestamp fields or without device id gives no task;
\* the tasks come in the order of their alerts, each is the task its alert
\* gives alone, and no plain alert loses its task to another alert.
C15_MalformedSkipped ==
    /\ mainPc # "raised"
    /\ mainPc = "derive" => ENABLED NextDerive
    /\ Len(origin) = Len(download_tasks)
    /\ \A k \in 1..Len(origin) :
          /\ origin[k] < alert_i
          /\ k > 1 => origin[k - 1] < origin[k]
          /\ ~LacksTimestamp(AlertOf(k))
          /\ ~LacksDevice(AlertOf(k))
          /\ download_tasks[k] =
                 download_task(AlertOf(k), opts.alert_buffer).task
    /\ \A j \in 1..(alert_i - 1) :
          PlainAlert(alerts[j]) => j \in Range(origin)

\* A feed with an alert that gives no task, followed by one that does.
C15_Witness ==
    /\ Derived
    /\ \E j \in 1..Len(alerts) :
          /\ LacksTimestamp(alerts[j]) \/ LacksDevice(alerts[j])
          /\ \E k \in 1..Len(origin) : origin[k] > j
    /\ \E j \in 1..Len(alerts) : ~alerts[j].isDict

\* C16: when the derivation has returned, the tasks are, in input order,
\* one for every alert with a timestamp (any value >= 0) and a device id,
\* each with its alert's id, type and timestamp.
C16_OneTaskPerValidAlert ==
    Derived =>
        /\ origin = Indices(ValidAlert)
        /\ \A k \in 1..Len(download_tasks) :
              /\ download_tasks[k].alert_id = AlertOf(k).alertId
              /\ download_tasks[k].alert_type = AlertOf(k).alertType
              /\ download_tasks[k].timestamp_ms \in
                     {AlertOf(k).timestampMs.val, AlertOf(k).eventStartMs.val}

\* ---- properties of get_camera_to_gateway_map

Keys(dict) == {dict[k].uuid : k \in 1..Len(dict)}

\* The cameras the loop has been through.
Seen == IF camResDict.hasKey
        THEN {camResDict.states[k] : k \in 1..(cam_i - 1)}
        ELSE {}

\* A camera the mapping has to hold: healthy, at the location asked for (if
\* any) and with the id asked for (if any).
Wanted(cam) ==
    /\ cam.connectionStatus = "GREEN"
    /\ opts.location_uuid # None => cam.locationUuid = opts.location_uuid
    /\ opts.camera_uuid # None => cam.uuid = opts.camera_uuid

Mapping == mainPc \in {"map", "submit"}

\* C17: the mapping holds exactly the cameras gone through that are
\* healthy and pass the location filter and the device filter, each once.
C17_FiltersApplied ==
    Mapping =>
        /\ Keys(camUuidDict) = {cam.uuid : cam \in {c \in Seen : Wanted(c)}}
        /\ \A j, k \in 1..Len(camUuidDict) :
              camUuidDict[j].uuid = camUuidDict[k].uuid => j = k

\* Both filters are given; the directory has been gone through, one camera
\* was kept and one was left out.
C17_Witness ==
    /\ mainPc = "submit"
    /\ opts.location_uuid # None /\ opts.camera_uuid # None
    /\ Len(camUuidDict) = 1
    /\ \E cam \in Seen :
          /\ cam.connectionStatus = "GREEN"
          /\ cam.uuid = opts.camera_uuid
          /\ cam.locationUuid # opts.location_uuid

\* The gateways that list a camera, by their place in the directory.
ListedBy(uuid) ==
    {g \in 1..Len(audResDict.states) :
        uuid \in Range(audResDict.states[g].associatedCameras)}

\* C18: every camera of the mapping has the id of the last gateway of the
\* directory that lists it, and none when no gateway lists it; a camera
\* that gateways list is in the mapping only if it passed the filters.
C18_LastGatewayWins ==
    Mapping =>
        /\ \A k \in 1..Len(camUuidDict) :
              LET by == ListedBy(camUuidDict[k].uuid) IN
              camUuidDict[k].audioGatewayUuid =
                  IF by = {} THEN None
                  ELSE audResDict.states[CHOOSE g \in by :
                                            \A h \in by : h <= g].uuid
        /\ \A g \in 1..Len(audResDict.states) :
              \A uuid \in Range(audResDict.states[g].associatedCameras) :
                  uuid \in Keys(camUuidDict) =>
                      \E cam \in Seen : cam.uuid = uuid /\ Wanted(cam)

\* A camera listed by two different gateways is mapped, next to a camera
\* no gateway lists; a gateway lists a camera that is not mapped.
C18_Witness ==
    /\ mainPc = "submit"
    /\ \E k \in 1..Len(camUuidDict) :
          /\ Cardinality(ListedBy(camUuidDict[k].uuid)) = 2
          /\ audResDict.states[1].uuid # audResDict.states[2].uuid
          /\ camUuidDict[k].audioGatewayUuid = audResDict.states[2].uuid
    /\ \E g \in 1..Len(audResDict.states) :
          \E uuid \in Range(audResDict.states[g].associatedCameras) :
              uuid \notin Keys(camUuidDict)

\* ---- properties of main

Calls(name) == Len(SelectSeq(mainLog, LAMBDA c : c = name))

AlertsFailed ==
    remote.alerts_resp.status # "ok" \/ remote.alerts_resp.body = "undecodable"

AlertsFetched == mode = "alert" /\ mainPc # "fetch_alerts"

\* C19: the alert feed is asked for once; after a transport error, a
\* non-success status or an undecodable body the alert list is empty and
\* nothing was raised; with an empty alert list main has left with
\* sys.exit(0) having made no directory call and dispatched no task.
C19_FailedFetchIsEmpty ==
    /\ Calls("getPolicyAlerts") = IF AlertsFetched THEN 1 ELSE 0
    /\ (AlertsFetched /\ AlertsFailed) => alerts = <<>>
    /\ (AlertsFetched /\ alerts = <<>>) =>
          /\ mainPc = "exit"
          /\ mainLog = <<"getPolicyAlerts">>
          /\ tasks = <<>> /\ submitted = 0 /\ pc = <<>>

\* A non-success answer that carries alerts has ended the run.
C19_Witness ==
    /\ AlertsFetched
    /\ remote.alerts_resp.status = "bad"
    /\ remote.alerts_resp.body = "data"
    /\ remote.alerts_resp.data # <<>>
    /\ mainPc = "exit"

CamerasFailed == remote.cam_resp.status # "ok"
GatewaysFailed == remote.aud_resp.status # "ok"

\* C20: after a failed camera-directory or gateway-directory fetch main is
\* not ended by an exception; the run reaches its report with every derived
\* task dispatched in alert mode, and with no task in manual mode when the
\* camera directory failed.
C20_DirectoryFailureTolerated ==
    (CamerasFailed \/ GatewaysFailed) =>
        /\ mainPc # "raised"
        /\ mainPc = "report" =>
              /\ mode = "alert" => submitted = Len(download_tasks)
              /\ (mode = "manual" /\ CamerasFailed) => submitted = 0

\* ---- properties of the dispatched tasks

TaskFiles(t) == {VideoFile(t), AudioFile(t), OutputFile(t)}

Dispatched(t) == pc[t] # "new"

\* C21: two distinct dispatched tasks of a run have no file path in common.
C21_NoSharedFile ==
    \A t, u \in Tasks :
        (t # u /\ Dispatched(t) /\ Dispatched(u)) =>
            TaskFiles(t) \cap TaskFiles(u) = {}

\* ---- properties of one stream

\* The requests stream s of task t has issued, in order.
OfStream(t, s) == SelectSeq(reqs[t], LAMBDA e : e.stream = s)

\* C22: a stream whose session request was answered with a non-success
\* status has issued that one request and no other, has returned at once,
\* and has neither created nor truncated its output file.
C22_SessionFailureAborts ==
    \A t \in Tasks : \A s \in Streams :
        LET rs == OfStream(t, s) IN
        (\E k \in 1..Len(rs) : rs[k].kind = "session" /\ rs[k].status = "bad")
            => /\ Len(rs) = 1
               /\ result[t][s] = "aborted"
               /\ ~(stream[t] = s /\ Running(pc, t) /\ pc[t] # "mux")
               /\ ~files[StreamFile(t, s)].exists

\* The audio stream of a task was refused its session after the video
\* stream had been downloaded.
C22_Witness ==
    \E t \in Tasks :
        /\ result[t]["video"] = "completed"
        /\ result[t]["audio"] = "aborted"
        /\ Len(OfStream(t, "audio")) = 1
        /\ OfStream(t, "audio")[1].status = "bad"
        /\ pc[t] \in Terminal

\* The place of a request kind in the protocol.
Rank(kind) ==
    CASE kind = "session" -> 1 [] kind = "media_uri" -> 2
      [] kind = "manifest" -> 3 [] kind = "init" -> 4 [] kind = "seg" -> 5

\* C23: the requests of a stream start with its session request and go on
\* step by step to media URI, manifest, init segment and data segments;
\* every manifest and segment request carries the credential issued to
\* that stream's own session request, which no other stream of the run
\* was issued.
C23_ProtocolOrder ==
    \A t \in Tasks : \A s \in Streams :
        LET rs == OfStream(t, s) IN
        /\ Len(rs) > 0 => rs[1].kind = "session"
        /\ \A k \in 1..(Len(rs) - 1) :
              \/ Rank(rs[k + 1].kind) = Rank(rs[k].kind) + 1
              \/ rs[k].kind = "seg" /\ rs[k + 1].kind = "seg"
        /\ \A k \in 1..Len(rs) :
              Rank(rs[k].kind) >= 3 =>
                  rs[k].cookie # NoToken /\ rs[k].cookie = rs[1].token
        /\ (Len(rs) > 0 /\ rs[1].token # NoToken) =>
              \A u \in Tasks : \A z \in Streams :
                  LET other == OfStream(u, z) IN
                  ((u # t \/ z # s) /\ Len(other) > 0) =>
                      other[1].token # rs[1].token

\* Both streams of a task have fetched data segments with their cookies.
C23_Witness ==
    \E t \in Tasks : \A s \in Streams :
        \E k \in 1..Len(OfStream(t, s)) :
            /\ OfStream(t, s)[k].kind = "seg"
            /\ OfStream(t, s)[k].cookie = FederatedSessionToken(t, s)

\* ---- properties of the scheduler

InPool == mainPc \in {"submit", "report"}

\* How many times the worker of task t has been entered: every entry
\* starts with the session request of the video stream.
EngineRuns(t) ==
    Len(SelectSeq(reqs[t], LAMBDA e : e.stream = "video" /\ e.kind = "session"))

\* C24: the pool is given exactly one work item per derived task (alert
\* mode, same device and window, in order) or per mapped camera (manual
\* mode); the items are submitted one by one, none is run twice, and when
\* main reports each has been run exactly once and has ended, also when
\* some have failed.
C24_ConsumedOnce ==
    InPool =>
        /\ mode = "alert" =>
              /\ Len(tasks) = Len(download_tasks)
              /\ \A t \in Tasks :
                    /\ tasks[t].device_uuid = download_tasks[t].device_uuid
                    /\ tasks[t].alert_id = download_tasks[t].alert_id
                    /\ tasks[t].start_time = download_tasks[t].start_time
                    /\ tasks[t].duration = download_tasks[t].duration
        /\ mode = "manual" =>
              /\ Len(tasks) = Len(camUuidDict)
              /\ \A t \in Tasks : tasks[t].device_uuid = camUuidDict[t].uuid
        /\ submitted <= Len(tasks)
        /\ \A t \in Tasks :
              /\ Dispatched(t) <=> t <= submitted
              /\ EngineRuns(t) <= 1
              /\ EngineRuns(t) = 0 <=> pc[t] \in {"new", "queued", "session"}
                                         /\ stream[t] = "video"
        /\ mainPc = "report" =>
              \A t \in Tasks : pc[t] \in Terminal /\ EngineRuns(t) = 1

\* Main reports after two tasks of one camera, of which one has failed.
C24_Witness ==
    /\ mainPc = "report"
    /\ mode = "alert"
    /\ Len(tasks) = 2
    /\ tasks[1].device_uuid = tasks[2].device_uuid
    /\ \E t \in Tasks : pc[t] = "failed"
    /\ \E t \in Tasks : pc[t] = "done"

\* C25: the run reaches its report, and it is at the report only when
\* every task has been dispatched and has ended (returned or raised).
C25_RunFinishes ==
    /\ <>(mainPc = "report")
    /\ [](mainPc = "report" =>
             /\ submitted = Len(tasks)
             /\ \A t \in Tasks : pc[t] \in Terminal)

\* Main is at the report after a task that failed and one that was muxed.
C25_Witness ==
    /\ mainPc = "report"
    /\ \E t \in Tasks : pc[t] = "failed"
    /\ \E t \in Tasks : pc[t] = "done" /\ mux[t] = "ok"

C27_OnlyMappedDevices ==
    (mode = "alert" /\ InPool) =>
        \A t \in Tasks :
            Dispatched(t) => tasks[t].device_uuid \in Keys(camUuidDict)

====
